---- MODULE Spec2Model ----
(***************************************************************************)
(* CSV upload service (src/api/index.py): table-name resolution under a    *)
(* PostgreSQL advisory lock, followed by ingestion through dlt.            *)
(*                                                                         *)
(* Text is modelled as a sequence of one-character strings, so that the    *)
(* normalisation functions work on characters as the Python code does.     *)
(* Every upload request is an independent unit of work (requests may be    *)
(* served by different processes or instances); the only shared state is   *)
(* the destination store: its catalog and its advisory locks.              *)
(***************************************************************************)
EXTENDS Integers, Sequences, FiniteSets, TLC

(***************************************************************************)
(* Bounds of the model.                                                    *)
(***************************************************************************)
\* number of upload requests in flight
NumRequests == 2
\* number of distinct values secrets.token_urlsafe(24) can take in the model
NumTokens == 3
\* longest text the naming functions are applied to (before an extension)
MaxLen == 3
\* number of distinct values uuid4().hex[:8] can take in the model
NumSuffixes == 2
\* size of the range of hashtext in the model (PostgreSQL's is 2^32)
HashBuckets == 2

Requests == 1..NumRequests

(***************************************************************************)
(* Characters and Python string helpers.                                   *)
(***************************************************************************)
LowerSeq ==
  << "a","b","c","d","e","f","g","h","i","j","k","l","m",
     "n","o","p","q","r","s","t","u","v","w","x","y","z" >>

UpperSeq ==
  << "A","B","C","D","E","F","G","H","I","J","K","L","M",
     "N","O","P","Q","R","S","T","U","V","W","X","Y","Z" >>

DigitSeq == << "0","1","2","3","4","5","6","7","8","9" >>

Range(s) == { s[i] : i \in DOMAIN s }

Digits == Range(DigitSeq)

\* the character class [a-z0-9]
Alnum == Range(LowerSeq) \cup Digits

\* the characters str.strip() removes
Whitespace == { " ", "\t", "\n", "\r" }

\* str.lower() on one character
LowerOf ==
  [ c \in Range(UpperSeq) |->
      LowerSeq[CHOOSE i \in DOMAIN UpperSeq : UpperSeq[i] = c] ]

lower_char(c) == IF c \in DOMAIN LowerOf THEN LowerOf[c] ELSE c

\* str.lower()
str_lower(s) == [ i \in 1..Len(s) |-> lower_char(s[i]) ]

RECURSIVE str_lstrip(_, _)
\* str.lstrip(chars): drops every leading character that is in chars
str_lstrip(s, chars) ==
  IF s # << >> /\ Head(s) \in chars THEN str_lstrip(Tail(s), chars) ELSE s

RECURSIVE str_rstrip(_, _)
\* str.rstrip(chars)
str_rstrip(s, chars) ==
  IF s # << >> /\ s[Len(s)] \in chars
    THEN str_rstrip(SubSeq(s, 1, Len(s) - 1), chars)
    ELSE s

\* str.strip(chars)
str_strip(s, chars) == str_rstrip(str_lstrip(s, chars), chars)

\* str.endswith(suffix)
str_endswith(s, suffix) ==
  /\ Len(s) >= Len(suffix)
  /\ SubSeq(s, Len(s) - Len(suffix) + 1, Len(s)) = suffix

RECURSIVE re_sub_run(_, _)
\* re.sub(r"[X]+", "_", s), `class` being the characters of the class X:
\* every maximal run of characters of the class becomes one "_"
re_sub_run(s, class) ==
  IF s = << >> THEN << >>
  ELSE IF Head(s) \in class
    THEN << "_" >> \o re_sub_run(str_lstrip(Tail(s), class), class)
    ELSE << Head(s) >> \o re_sub_run(Tail(s), class)

\* re.sub(r"[^a-z0-9]+", "_", s)
re_sub_non_alnum(s) == re_sub_run(s, Range(s) \ Alnum)

\* re.sub(r"_+", "_", s)
re_sub_underscores(s) == re_sub_run(s, { "_" })

\* rsplit(sep, 1)[-1]: the part after the last occurrence of sep
rsplit_last(s, sep) ==
  IF \E i \in DOMAIN s : s[i] = sep
    THEN LET last == CHOOSE i \in DOMAIN s :
                       /\ s[i] = sep
                       /\ \A j \in DOMAIN s : s[j] = sep => j <= i
         IN SubSeq(s, last + 1, Len(s))
    ELSE s

DotCsv == << ".", "c", "s", "v" >>

\* re.sub(r"\.csv$", "", base, flags=re.IGNORECASE): $ matches at the end
\* of the string and also just before a newline that ends the string
re_sub_csv_suffix(s) ==
  IF str_endswith(str_lower(s), DotCsv)
    THEN SubSeq(s, 1, Len(s) - 4)
  ELSE IF str_endswith(str_lower(s), DotCsv \o << "\n" >>)
    THEN SubSeq(s, 1, Len(s) - 5) \o << "\n" >>
  ELSE s

(***************************************************************************)
(* Naming helpers.                                                         *)
(***************************************************************************)
\* the query parameter or filename that was not sent (Python's None)
None == << "<None>" >>

uploaded_csv == << "u","p","l","o","a","d","e","d","_","c","s","v" >>

col == << "c","o","l" >>

slugify_table_name(filename) ==
  LET base1 == rsplit_last(rsplit_last(filename, "/"), "\\")
      base2 == re_sub_csv_suffix(base1)
      base3 == str_lower(str_strip(base2, Whitespace))
      base4 == re_sub_non_alnum(base3)
      base5 == str_strip(re_sub_underscores(base4), { "_" })
      base6 == IF base5 = << >> THEN uploaded_csv ELSE base5
  IN IF base6[1] \in Digits THEN << "t", "_" >> \o base6 ELSE base6

\* a normalisation that prefixes every header, digit-led or not
normalize_header_always_prefixed(h) ==
  IF h = None THEN col
  ELSE
    LET h1 == str_lower(str_strip(h, Whitespace))
        h2 == str_lstrip(h1, { "#" })
        h3 == re_sub_non_alnum(h2)
        h4 == str_strip(re_sub_underscores(h3), { "_" })
        h5 == IF h4 = << >> THEN col ELSE h4
    IN << "c", "_" >> \o h5

\* a normalisation without the prefix of digit-led headers
normalize_header_without_prefix(h) ==
  IF h = None THEN col
  ELSE
    LET h1 == str_lower(str_strip(h, Whitespace))
        h2 == str_lstrip(h1, { "#" })
        h3 == re_sub_non_alnum(h2)
        h4 == str_strip(re_sub_underscores(h3), { "_" })
    IN IF h4 = << >> THEN col ELSE h4

normalize_header(h) ==
  IF h = None THEN col
  ELSE
    LET h1 == str_lower(str_strip(h, Whitespace))
        h2 == str_lstrip(h1, { "#" })
        h3 == re_sub_non_alnum(h2)
        h4 == str_strip(re_sub_underscores(h3), { "_" })
        h5 == IF h4 = << >> THEN col ELSE h4
    IN IF h5[1] \in Digits THEN << "c", "_" >> \o h5 ELSE h5

\* An upload body after decode_csv_bytes and csv.reader: `empty` says that
\* the body has no bytes, `records` are the records the reader yields (the
\* first one is the header row).  A body of bytes can yield no record (a
\* lone byte-order mark) or an empty first record (a blank first line).
extract_normalized_headers(content) ==
  IF content.records = << >>
    THEN << >>
    ELSE [ i \in 1..Len(content.records[1]) |->
             normalize_header(content.records[1][i]) ]

\* load_csv, line 201: the base table name of an upload
base_table_name_of(table, filename) ==
  IF table # None /\ table # << >>
    THEN normalize_header(table)
    ELSE slugify_table_name(filename)

\* set(cols) of a Python list
ToSet(cols) == Range(cols)

\* a comparison of the two lists, which depends on order and duplicates
columns_match_as_lists(existing_cols, incoming_cols) ==
  existing_cols = incoming_cols

columns_match(existing_cols, incoming_cols) ==
  ToSet(existing_cols) = ToSet(incoming_cols)

(***************************************************************************)
(* The uploads the model draws requests from: the arguments of load_csv.   *)
(***************************************************************************)
csv_demo == << "c","s","v","_","d","e","m","o" >>

\* a body with a header row and one data row
Body(header) ==
  [ empty |-> FALSE,
    records |-> << header, [ i \in 1..Len(header) |-> << "1" >> ] >> ]

Uploads ==
  << \* no filename
     [ filename |-> None, content |-> Body(<< << "x" >> >>),
       mode |-> "replace", table |-> None, db |-> csv_demo ],
     \* not a .csv filename
     [ filename |-> << "a", ".", "t", "x", "t" >>,
       content |-> Body(<< << "x" >> >>),
       mode |-> "replace", table |-> None, db |-> csv_demo ],
     \* a body of no bytes
     [ filename |-> << "a", ".", "c", "s", "v" >>,
       content |-> [ empty |-> TRUE, records |-> << >> ],
       mode |-> "replace", table |-> None, db |-> csv_demo ],
     \* a body whose first line is blank: the first record has no field
     [ filename |-> << "a", ".", "c", "s", "v" >>,
       content |-> [ empty |-> FALSE, records |-> << << >>, << << "x" >> >> >> ],
       mode |-> "append", table |-> None, db |-> csv_demo ],
     \* a.csv with header " X"
     [ filename |-> << "a", ".", "c", "s", "v" >>,
       content |-> Body(<< << " ", "X" >> >>),
       mode |-> "replace", table |-> None, db |-> csv_demo ],
     \* A.CSV with header "#Y", "x"
     [ filename |-> << "A", ".", "C", "S", "V" >>,
       content |-> Body(<< << "#", "Y" >>, << "x" >> >>),
       mode |-> "append", table |-> None, db |-> csv_demo ],
     \* d/b.csv with header "x", "X"
     [ filename |-> << "d", "/", "b", ".", "c", "s", "v" >>,
       content |-> Body(<< << "x" >>, << "X" >> >>),
       mode |-> "replace", table |-> None, db |-> csv_demo ],
     \* 9.csv with header "x", sent with table=C
     [ filename |-> << "9", ".", "c", "s", "v" >>,
       content |-> Body(<< << "x" >> >>),
       mode |-> "append", table |-> << "C" >>, db |-> csv_demo ] >>

(***************************************************************************)
(* The destination store.                                                  *)
(***************************************************************************)
\* the columns dlt adds to a table it loads: _dlt_load_id, _dlt_id
DltColumns ==
  << << "_","d","l","t","_","l","o","a","d","_","i","d" >>,
     << "_","d","l","t","_","i","d" >> >>

\* the catalogs an upload can find: no table yet, or table a with the
\* columns x, y
InitialCatalogs ==
  { [ t \in { } |-> << >> ],
    [ t \in { << csv_demo, << "a" >> >> } |-> << << "x" >>, << "y" >> >> ] }

CharCodes == LowerSeq \o DigitSeq \o << "_", "." >>

OrdTable ==
  [ c \in Range(CharCodes) |-> CHOOSE i \in DOMAIN CharCodes : CharCodes[i] = c ]

ord(c) == OrdTable[c]

RECURSIVE SumCodes(_)
SumCodes(k) == IF k = << >> THEN 0 ELSE ord(Head(k)) + SumCodes(Tail(k))

\* PostgreSQL's hashtext: a function from the key's characters onto a range
\* smaller than the set of keys, so that different keys can collide
hashtext(k) == SumCodes(k) % HashBuckets

Hashes == 0..(HashBuckets - 1)

lock_key(schema_name, base_table_name) ==
  schema_name \o << "." >> \o base_table_name

\* uuid4().hex[:8]: eight lowercase hexadecimal digits
HexSuffix(n) == [ i \in 1..8 |-> IF i = 8 THEN DigitSeq[n] ELSE "0" ]

Suffixes == { HexSuffix(n) : n \in 1..NumSuffixes }

\* order-preserving union of two column lists
RECURSIVE AddColumns(_, _)
AddColumns(cols, more) ==
  IF more = << >> THEN cols
  ELSE IF Head(more) \in Range(cols)
    THEN AddColumns(cols, Tail(more))
    ELSE AddColumns(Append(cols, Head(more)), Tail(more))

(***************************************************************************)
(* State.                                                                  *)
(***************************************************************************)
VARIABLES
  DATABASE_URL,    \* whether the environment variable is set
  catalog,         \* the store's tables: <<schema, table>> -> column list
  advisory_lock,   \* hashtext value -> request whose transaction holds it, or 0
  pc,              \* where each request is in load_csv
  local,           \* the local variables of load_csv, per request
  store_error,     \* history: the store operation that failed for the request
  catalog_version, \* history: number of changes made to the catalog
  seen_version,    \* history: catalog versions the request's queries read
  norm,            \* a naming function applied to a text, and applied again
  oauth_STATE,     \* src/oauth_app.py: the module's STATE dictionary
  oauth            \* history of the OAuth helper's requests

vars ==
  << DATABASE_URL, catalog, advisory_lock, pc, local, store_error,
     catalog_version, seen_version, norm, oauth_STATE, oauth >>

\* the state of the upload service
upload_vars ==
  << DATABASE_URL, catalog, advisory_lock, pc, local, store_error,
     catalog_version, seen_version >>

\* the state the upload service does not touch
other_vars == << norm, oauth_STATE, oauth >>

\* no naming function has been applied yet
NoNorm == [ pc |-> "start", fn |-> "none", input |-> << >>,
            once |-> << >>, twice |-> << >> ]

\* STATE = {} and no request has been served
NoState == [ t \in { } |-> 0 ]

NoOAuth == [ env |-> TRUE, issued |-> { }, exchanged |-> { }, last |-> "none" ]

NoLocal ==
  [ upload |-> 0, incoming_cols |-> << >>, base_table_name |-> << >>,
    schema_name |-> << >>, exists |-> FALSE, existing_cols |-> << >>,
    final_table_name |-> << >>, decision |-> "none",
    write_disposition |-> "none", status_code |-> 0, detail |-> "" ]

Init ==
  /\ DATABASE_URL \in BOOLEAN
  /\ catalog \in InitialCatalogs
  /\ advisory_lock = [ h \in Hashes |-> 0 ]
  /\ pc = [ r \in Requests |-> "idle" ]
  /\ local = [ r \in Requests |-> NoLocal ]
  /\ store_error = [ r \in Requests |-> "none" ]
  /\ catalog_version = 0
  /\ seen_version = [ r \in Requests |-> { } ]
  /\ norm = NoNorm
  /\ oauth_STATE = NoState
  /\ oauth = NoOAuth

\* the advisory lock the request's resolution uses
LockOf(r) == hashtext(lock_key(local[r].schema_name, local[r].base_table_name))

\* the table the request resolves
BaseTable(r) == << local[r].schema_name, local[r].base_table_name >>

\* the end of a transaction releases the advisory locks it holds
TxnEnd(r) ==
  [ h \in Hashes |-> IF advisory_lock[h] = r THEN 0 ELSE advisory_lock[h] ]

\* a lock taken for the session, which the end of the transaction keeps
TxnEndKeepsLock(r) == advisory_lock

\* leaving `with engine.begin()` by return: commit
Commit(r) == TxnEnd(r)

\* leaving `with engine.begin()` by an exception: rollback
Rollback(r) == TxnEnd(r)

\* the HTTPException(status_code=500) of the resolution's except clause
InspectionFailed(r, op) ==
  /\ pc' = [ pc EXCEPT ![r] = "failed" ]
  /\ local' = [ local EXCEPT ![r].status_code = 500,
                             ![r].detail = "DB inspection failed" ]
  /\ store_error' = [ store_error EXCEPT ![r] = op ]

(***************************************************************************)
(* load_csv, lines 190-202: validation and naming.                         *)
(***************************************************************************)
\* validation without the check of the header row
ValidateWithoutHeaderCheck(up) ==
  IF \/ up.filename = None
     \/ up.filename = << >>
     \/ ~ str_endswith(str_lower(up.filename), DotCsv)
    THEN "Please upload a .csv file"
  ELSE IF up.content.empty
    THEN "Empty file"
  ELSE ""

\* the detail of the HTTPException(status_code=400), or "" for a valid upload
Validate(up) ==
  IF \/ up.filename = None
     \/ up.filename = << >>
     \/ ~ str_endswith(str_lower(up.filename), DotCsv)
    THEN "Please upload a .csv file"
  ELSE IF up.content.empty
    THEN "Empty file"
  ELSE IF extract_normalized_headers(up.content) = << >>
    THEN "CSV has no header row"
  ELSE ""

Receive(r) ==
  /\ pc[r] = "idle"
  /\ \E u \in DOMAIN Uploads :
       LET up == Uploads[u] IN
       IF Validate(up) # ""
         THEN /\ pc' = [ pc EXCEPT ![r] = "rejected" ]
              /\ local' = [ local EXCEPT ![r].upload = u,
                                         ![r].status_code = 400,
                                         ![r].detail = Validate(up) ]
         ELSE /\ pc' = [ pc EXCEPT ![r] = "validated" ]
              /\ local' =
                   [ local EXCEPT
                       ![r].upload = u,
                       ![r].incoming_cols = extract_normalized_headers(up.content),
                       ![r].base_table_name =
                          base_table_name_of(up.table, up.filename),
                       ![r].schema_name = normalize_header(up.db) ]
  /\ UNCHANGED << other_vars, DATABASE_URL, catalog, advisory_lock, store_error,
                  catalog_version, seen_version >>

(***************************************************************************)
(* get_sqlalchemy_engine and engine.begin(), lines 94-100, 133, 206.       *)
(***************************************************************************)
EngineBegin(r) ==
  /\ pc[r] = "validated"
  /\ \/ /\ ~ DATABASE_URL
        /\ InspectionFailed(r, "engine")
     \/ /\ DATABASE_URL
        /\ pc' = [ pc EXCEPT ![r] = "in_txn" ]
        /\ UNCHANGED << local, store_error >>
     \/ /\ DATABASE_URL
        /\ InspectionFailed(r, "connect")
  /\ UNCHANGED << other_vars, DATABASE_URL, catalog, advisory_lock, catalog_version,
                  seen_version >>

(***************************************************************************)
(* choose_table_name_atomic, lines 118-148.                                *)
(***************************************************************************)
\* a lock function that is not exclusive: the call returns at once
LockGrantNotExclusive(r) ==
  /\ advisory_lock' =
       IF advisory_lock[LockOf(r)] = 0
         THEN [ advisory_lock EXCEPT ![LockOf(r)] = r ]
         ELSE advisory_lock
  /\ pc' = [ pc EXCEPT ![r] = "locked" ]
  /\ UNCHANGED << local, store_error >>

\* one lock for every key: the call waits while any lock is held
LockGrantGlobal(r) ==
  /\ \A h \in Hashes : advisory_lock[h] = 0
  /\ advisory_lock' = [ advisory_lock EXCEPT ![LockOf(r)] = r ]
  /\ pc' = [ pc EXCEPT ![r] = "locked" ]
  /\ UNCHANGED << local, store_error >>

\* pg_advisory_xact_lock returns: it waits until no other transaction holds
\* the lock of the same hashtext value
LockGrant(r) ==
  /\ advisory_lock[LockOf(r)] = 0
  /\ advisory_lock' = [ advisory_lock EXCEPT ![LockOf(r)] = r ]
  /\ pc' = [ pc EXCEPT ![r] = "locked" ]
  /\ UNCHANGED << local, store_error >>

\* SELECT pg_advisory_xact_lock(hashtext(:k)), or the statement fails
AdvisoryXactLock(r) ==
  /\ pc[r] = "in_txn"
  /\ \/ LockGrant(r)
     \/ /\ advisory_lock' = Rollback(r)
        /\ InspectionFailed(r, "lock")
  /\ UNCHANGED << other_vars, DATABASE_URL, catalog, catalog_version, seen_version >>

\* has_table whose failure is swallowed and read as "no such table"
HasTableSwallowsError(r) ==
  /\ pc[r] = "locked"
  /\ \/ /\ local' = [ local EXCEPT ![r].exists = BaseTable(r) \in DOMAIN catalog ]
        /\ pc' = [ pc EXCEPT ![r] =
                     IF BaseTable(r) \in DOMAIN catalog
                       THEN "get_columns" ELSE "inspected" ]
        /\ seen_version' =
             [ seen_version EXCEPT ![r] = @ \cup { catalog_version } ]
        /\ UNCHANGED << advisory_lock, store_error >>
     \/ /\ local' = [ local EXCEPT ![r].exists = FALSE ]
        /\ pc' = [ pc EXCEPT ![r] = "inspected" ]
        /\ store_error' = [ store_error EXCEPT ![r] = "has_table" ]
        /\ UNCHANGED << advisory_lock, seen_version >>
  /\ UNCHANGED << other_vars, DATABASE_URL, catalog, catalog_version >>

\* table_exists_and_columns, lines 104-107: insp.has_table
HasTable(r) ==
  /\ pc[r] = "locked"
  /\ \/ /\ local' = [ local EXCEPT ![r].exists = BaseTable(r) \in DOMAIN catalog ]
        /\ pc' = [ pc EXCEPT ![r] =
                     IF BaseTable(r) \in DOMAIN catalog
                       THEN "get_columns" ELSE "inspected" ]
        /\ seen_version' =
             [ seen_version EXCEPT ![r] = @ \cup { catalog_version } ]
        /\ UNCHANGED << advisory_lock, store_error >>
     \/ /\ advisory_lock' = Rollback(r)
        /\ InspectionFailed(r, "has_table")
        /\ UNCHANGED seen_version
  /\ UNCHANGED << other_vars, DATABASE_URL, catalog, catalog_version >>

\* table_exists_and_columns, lines 108-110: insp.get_columns
GetColumns(r) ==
  /\ pc[r] = "get_columns"
  /\ \/ /\ local' = [ local EXCEPT ![r].existing_cols = catalog[BaseTable(r)] ]
        /\ pc' = [ pc EXCEPT ![r] = "inspected" ]
        /\ seen_version' =
             [ seen_version EXCEPT ![r] = @ \cup { catalog_version } ]
        /\ UNCHANGED << advisory_lock, store_error >>
     \/ /\ advisory_lock' = Rollback(r)
        /\ InspectionFailed(r, "get_columns")
        /\ UNCHANGED seen_version
  /\ UNCHANGED << other_vars, DATABASE_URL, catalog, catalog_version >>

\* a resolver that puts the random suffix on every name it returns
choose_table_name_always_suffixed(exists, existing_cols, base_table_name, incoming_cols, suffix) ==
  IF ~ exists
    THEN << base_table_name \o << "_", "_" >> \o suffix, "created_new_table" >>
  ELSE IF columns_match(existing_cols, incoming_cols)
    THEN << base_table_name \o << "_", "_" >> \o suffix, "matched_existing_table" >>
  ELSE << base_table_name \o << "_", "_" >> \o suffix,
          "schema_mismatch_created_new_table" >>

\* a resolver that forks a new name when the table is missing
choose_table_name_missing_forks(exists, existing_cols, base_table_name, incoming_cols, suffix) ==
  IF exists /\ columns_match(existing_cols, incoming_cols)
    THEN << base_table_name, "matched_existing_table" >>
  ELSE << base_table_name \o << "_", "_" >> \o suffix,
          IF exists THEN "schema_mismatch_created_new_table"
                    ELSE "created_new_table" >>

\* lines 139-148: the name and the decision, given what the catalog said
\* and the value of uuid4().hex[:8]
choose_table_name(exists, existing_cols, base_table_name, incoming_cols, suffix) ==
  IF ~ exists
    THEN << base_table_name, "created_new_table" >>
  ELSE IF columns_match(existing_cols, incoming_cols)
    THEN << base_table_name, "matched_existing_table" >>
  ELSE << base_table_name \o << "_", "_" >> \o suffix,
          "schema_mismatch_created_new_table" >>

\* a resolver that creates the table it names before it returns
ChooseReturnCreatesTable(r) ==
  /\ pc[r] = "inspected"
  /\ \/ \E suffix \in Suffixes :
          LET chosen == choose_table_name(local[r].exists, local[r].existing_cols,
                                          local[r].base_table_name,
                                          local[r].incoming_cols, suffix)
              named == << local[r].schema_name, chosen[1] >>
          IN /\ local' = [ local EXCEPT ![r].final_table_name = chosen[1],
                                        ![r].decision = chosen[2] ]
             /\ catalog' = [ t \in DOMAIN catalog \cup { named } |->
                               IF t \in DOMAIN catalog THEN catalog[t]
                               ELSE local[r].incoming_cols ]
             /\ advisory_lock' = Commit(r)
             /\ pc' = [ pc EXCEPT ![r] = "resolved" ]
             /\ UNCHANGED store_error
     \/ /\ advisory_lock' = Rollback(r)
        /\ InspectionFailed(r, "commit")
        /\ UNCHANGED catalog
  /\ UNCHANGED << other_vars, DATABASE_URL, catalog_version, seen_version >>

\* the return out of the with block: the transaction commits
ChooseReturn(r) ==
  /\ pc[r] = "inspected"
  /\ \/ \E suffix \in Suffixes :
          LET chosen == choose_table_name(local[r].exists, local[r].existing_cols,
                                          local[r].base_table_name,
                                          local[r].incoming_cols, suffix)
          IN /\ local' = [ local EXCEPT ![r].final_table_name = chosen[1],
                                        ![r].decision = chosen[2] ]
             /\ advisory_lock' = Commit(r)
             /\ pc' = [ pc EXCEPT ![r] = "resolved" ]
             /\ UNCHANGED store_error
     \/ /\ advisory_lock' = Rollback(r)
        /\ InspectionFailed(r, "commit")
  /\ UNCHANGED << other_vars, DATABASE_URL, catalog, catalog_version, seen_version >>

(***************************************************************************)
(* load_csv, lines 211-237: ingestion.                                     *)
(***************************************************************************)
\* lines 211-224: the pipeline and the resource are built, pipeline.run starts
PipelineRunStart(r) ==
  /\ pc[r] = "resolved"
  /\ pc' = [ pc EXCEPT ![r] = "loading" ]
  /\ local' = [ local EXCEPT ![r].write_disposition =
                  IF Uploads[local[r].upload].mode = "replace"
                    THEN "replace" ELSE "append" ]
  /\ UNCHANGED << other_vars, DATABASE_URL, catalog, advisory_lock, store_error,
                  catalog_version, seen_version >>

\* the table pipeline.run loads into
Target(r) == << local[r].schema_name, local[r].final_table_name >>

\* The catalog after dlt has loaded the rows: the target table exists and has
\* the columns it had, the incoming columns and, when dlt adds them, dlt's own.
Loaded(r, extra) ==
  LET old == IF Target(r) \in DOMAIN catalog THEN catalog[Target(r)] ELSE << >>
      new == AddColumns(AddColumns(old, local[r].incoming_cols), extra)
  IN [ t \in DOMAIN catalog \cup { Target(r) } |->
         IF t = Target(r) THEN new ELSE catalog[t] ]

\* lines 224-237: pipeline.run returns, or it raises and leaves the catalog
\* as it was
PipelineRunFinish(r) ==
  /\ pc[r] = "loading"
  /\ \/ \E extra \in { << >>, DltColumns } :
          /\ catalog' = Loaded(r, extra)
          /\ catalog_version' = catalog_version + 1
          /\ pc' = [ pc EXCEPT ![r] = "done" ]
          /\ local' = [ local EXCEPT ![r].status_code = 200,
                                     ![r].detail = "Loaded successfully" ]
          /\ UNCHANGED store_error
     \/ /\ pc' = [ pc EXCEPT ![r] = "failed" ]
        /\ local' = [ local EXCEPT ![r].status_code = 500,
                                   ![r].detail = "Load failed" ]
        /\ store_error' = [ store_error EXCEPT ![r] = "load" ]
        /\ UNCHANGED << catalog, catalog_version >>
  /\ UNCHANGED << other_vars, DATABASE_URL, advisory_lock, seen_version >>

Next ==
  \E r \in Requests :
    \/ Receive(r)
    \/ EngineBegin(r)
    \/ AdvisoryXactLock(r)
    \/ HasTable(r)
    \/ GetColumns(r)
    \/ ChooseReturn(r)
    \/ PipelineRunStart(r)
    \/ PipelineRunFinish(r)

Spec == Init /\ [][Next]_vars

\* the step in which the store grants the lock to a waiting transaction
LockGranted(r) ==
  /\ pc[r] = "in_txn"
  /\ LockGrant(r)
  /\ UNCHANGED << other_vars, DATABASE_URL, catalog, catalog_version, seen_version >>

\* Fair scheduling: the store grants a lock that stays free to a transaction
\* that waits for it, and every statement of a transaction that holds the
\* lock returns or raises.  Nothing makes a waiting statement fail.
FairSpec ==
  /\ Spec
  /\ \A r \in Requests :
       /\ WF_vars(LockGranted(r))
       /\ WF_vars(HasTable(r))
       /\ WF_vars(GetColumns(r))
       /\ WF_vars(ChooseReturn(r))

(***************************************************************************)
(* The naming functions applied to texts: slugify_table_name,              *)
(* normalize_header and the choice of load_csv line 201, each applied to   *)
(* an input and the first two applied again to their own result.           *)
(***************************************************************************)
TextChars == { "a", "B", "1", "_", "#", " ", ".", "/", "\\" }

\* the texts of at most MaxLen characters
Texts == UNION { [ 1..n -> TextChars ] : n \in 0..MaxLen }

Extensions == { << >>, DotCsv, << ".", "C", "S", "V" >> }

Filenames == { t \o ext : t \in Texts, ext \in Extensions }

\* the upload service and the OAuth helper at rest
InitRest ==
  /\ DATABASE_URL = TRUE
  /\ catalog = [ t \in { } |-> << >> ]
  /\ advisory_lock = [ h \in Hashes |-> 0 ]
  /\ pc = [ r \in Requests |-> "idle" ]
  /\ local = [ r \in Requests |-> NoLocal ]
  /\ store_error = [ r \in Requests |-> "none" ]
  /\ catalog_version = 0
  /\ seen_version = [ r \in Requests |-> { } ]

InitNorm ==
  /\ InitRest
  /\ norm = NoNorm
  /\ oauth_STATE = NoState
  /\ oauth = NoOAuth

\* normalize_header applied to a header, a table override or a db parameter
NormalizeHeader ==
  /\ norm.pc = "start"
  /\ \E h \in Texts \cup { None } :
       norm' = [ pc |-> "once", fn |-> "normalize_header", input |-> h,
                 once |-> normalize_header(h), twice |-> << >> ]
  /\ UNCHANGED << upload_vars, oauth_STATE, oauth >>

\* slugify_table_name applied to a filename
SlugifyTableName ==
  /\ norm.pc = "start"
  /\ \E f \in Filenames :
       norm' = [ pc |-> "once", fn |-> "slugify_table_name", input |-> f,
                 once |-> slugify_table_name(f), twice |-> << >> ]
  /\ UNCHANGED << upload_vars, oauth_STATE, oauth >>

\* load_csv line 201 applied to a table override and a filename
BaseTableName ==
  /\ norm.pc = "start"
  /\ \E table \in Texts \cup { None },
        f \in { << "9" >> \o DotCsv, << "#" >> \o DotCsv } :
       norm' = [ pc |-> "once", fn |-> "base_table_name",
                 input |-> << table, f >>,
                 once |-> base_table_name_of(table, f), twice |-> << >> ]
  /\ UNCHANGED << upload_vars, oauth_STATE, oauth >>

\* the function applied to its own result
Again ==
  /\ norm.pc = "once"
  /\ \/ /\ norm.fn = "normalize_header"
        /\ norm' = [ norm EXCEPT !.pc = "twice",
                                 !.twice = normalize_header(norm.once) ]
     \/ /\ norm.fn = "slugify_table_name"
        /\ norm' = [ norm EXCEPT !.pc = "twice",
                                 !.twice = slugify_table_name(norm.once) ]
  /\ UNCHANGED << upload_vars, oauth_STATE, oauth >>

NextNorm ==
  \/ NormalizeHeader
  \/ SlugifyTableName
  \/ BaseTableName
  \/ Again

SpecNorm == InitNorm /\ [][NextNorm]_vars

(***************************************************************************)
(* src/oauth_app.py: the OAuth helper.  /start stores a fresh state value  *)
(* in the module's STATE dictionary; the callback compares its state query *)
(* parameter with the stored value and exchanges the code for a token.     *)
(***************************************************************************)
Tokens == 1..NumTokens

\* the value of dict.get or query_params.get for a key that is present
Param(v) == [ present |-> TRUE, value |-> v ]

\* the None that dict.get and query_params.get return for a missing key
Absent == [ present |-> FALSE, value |-> 0 ]

\* STATE.get("state")
STATE_get ==
  IF "state" \in DOMAIN oauth_STATE THEN Param(oauth_STATE["state"]) ELSE Absent

\* the values of the code query parameter: missing, empty, a code
Codes == { "<None>", "", "abc" }

\* line 44: the callback proceeds when the parameter equals the stored value
state_check(state) == state = STATE_get

InitOAuth ==
  /\ InitRest
  /\ norm = NoNorm
  /\ oauth_STATE = NoState
  /\ oauth \in { [ NoOAuth EXCEPT !.env = b ] : b \in BOOLEAN }

\* GET /start: the state is stored before env() may raise
start ==
  /\ \E state \in Tokens :
       /\ oauth_STATE' = [ k \in { "state" } |-> state ]
       /\ oauth' = [ oauth EXCEPT
                       !.issued = @ \cup { state },
                       !.last = IF oauth.env THEN "redirect"
                                ELSE "Missing env var" ]
  /\ UNCHANGED << upload_vars, norm >>

\* GET /api/oauth/google/callback
callback ==
  /\ \E state \in { Absent } \cup { Param(t) : t \in Tokens }, code \in Codes :
       IF ~ state_check(state)
         THEN oauth' = [ oauth EXCEPT !.last = "Invalid state" ]
       ELSE IF code \in { "<None>", "" }
         THEN oauth' = [ oauth EXCEPT !.last = "Missing code" ]
       ELSE IF ~ oauth.env
         THEN oauth' = [ oauth EXCEPT !.last = "Missing env var" ]
       ELSE \E answer \in { "OAuth success", "token request failed" } :
              oauth' = [ oauth EXCEPT !.exchanged = @ \cup { state },
                                      !.last = answer ]
  /\ UNCHANGED << upload_vars, norm, oauth_STATE >>

NextOAuth ==
  \/ start
  \/ callback

SpecOAuth == InitOAuth /\ [][NextOAuth]_vars

(***************************************************************************)
(* Properties.                                                             *)
(***************************************************************************)
\* the request is between acquiring the advisory lock and returning
InCriticalSection(r) == pc[r] \in { "locked", "get_columns", "inspected" }

\* the request holds no advisory lock
HoldsNoLock(r) == \A h \in Hashes : advisory_lock[h] # r

\* resolve has returned a name and a decision to the request
Resolved(r) == local[r].decision # "none"

\* the two requests resolve the same table with the same column set
SameResolveArguments(r1, r2) ==
  /\ BaseTable(r1) = BaseTable(r2)
  /\ ToSet(local[r1].incoming_cols) = ToSet(local[r2].incoming_cols)

\* s starts with prefix
StartsWith(s, prefix) ==
  /\ Len(s) >= Len(prefix)
  /\ SubSeq(s, 1, Len(prefix)) = prefix

\* C1: of the uploads of one table with one column set that were resolved
\* while the table did not exist and have all been loaded, no two received
\* the decision created_new_table.
C1_NeverTwoCreatedNewTable ==
  \A r1, r2 \in Requests :
    ( /\ r1 # r2
      /\ pc[r1] = "done" /\ pc[r2] = "done"
      /\ SameResolveArguments(r1, r2) )
    => ~ ( /\ local[r1].decision = "created_new_table"
           /\ local[r2].decision = "created_new_table" )

\* C2: no table is loaded by two uploads whose column sets differ.
C2_NoTableLoadedWithTwoColumnSets ==
  \A r1, r2 \in Requests :
    ( /\ r1 # r2
      /\ pc[r1] = "done" /\ pc[r2] = "done"
      /\ Target(r1) = Target(r2) )
    => columns_match(local[r1].incoming_cols, local[r2].incoming_cols)

\* C3: a request that is between acquiring the lock and returning, which is
\* where it queries the catalog, holds the advisory lock of its table, and
\* no two requests for one (schema, base table) are there at the same time.
C3_MutualExclusion ==
  /\ \A r \in Requests :
       InCriticalSection(r) => advisory_lock[LockOf(r)] = r
  /\ \A r1, r2 \in Requests :
       ( /\ r1 # r2
         /\ InCriticalSection(r1) /\ InCriticalSection(r2) )
       => BaseTable(r1) # BaseTable(r2)

\* one request is in the critical section while another request for the
\* same table waits for the lock
C3_Witness ==
  \E r1, r2 \in Requests :
    /\ r1 # r2
    /\ InCriticalSection(r1)
    /\ pc[r2] = "in_txn"
    /\ BaseTable(r1) = BaseTable(r2)
    /\ ~ ENABLED LockGrant(r2)

\* C4 as stated: a request about to take the lock is granted it whenever no
\* request for the same (schema, base table) is in the critical section.
C4_DifferentPairsNeverBlock ==
  \A r \in Requests :
    ( /\ pc[r] = "in_txn"
      /\ \A r2 \in Requests \ { r } :
           InCriticalSection(r2) => BaseTable(r2) # BaseTable(r) )
    => ENABLED LockGrant(r)

\* C4 amended: a request about to take the lock is granted it whenever no
\* request whose lock key has the same hashtext value is in the critical
\* section, whatever other locks are held.
C4_DifferentHashesNeverBlock ==
  \A r \in Requests :
    ( /\ pc[r] = "in_txn"
      /\ \A r2 \in Requests \ { r } :
           InCriticalSection(r2) => LockOf(r2) # LockOf(r) )
    => ENABLED LockGrant(r)

\* a request can take its lock while a request for another table, whose key
\* hashes differently, is in the critical section
C4_Witness ==
  \E r, r2 \in Requests :
    /\ r # r2
    /\ pc[r] = "in_txn"
    /\ InCriticalSection(r2)
    /\ LockOf(r2) # LockOf(r)
    /\ ENABLED LockGrant(r)

\* C5: when resolve returns schema_mismatch_created_new_table, the name it
\* returns starts with the base name and "__" and names no table of the
\* catalog.
C5_ForkNameIsNew ==
  [][ \A r \in Requests :
        ( /\ pc[r] = "inspected"
          /\ pc'[r] = "resolved"
          /\ local'[r].decision = "schema_mismatch_created_new_table" )
        => /\ StartsWith(local'[r].final_table_name,
                         local[r].base_table_name \o << "_", "_" >>)
           /\ << local[r].schema_name, local'[r].final_table_name >>
                \notin DOMAIN catalog ]_vars

\* the two requests resolved the same table with the same column set and
\* the catalog did not change between their queries
ResolvedAlike(r1, r2) ==
  /\ r1 # r2
  /\ Resolved(r1) /\ Resolved(r2)
  /\ SameResolveArguments(r1, r2)
  /\ seen_version[r1] = seen_version[r2]
  /\ Cardinality(seen_version[r1]) = 1

\* C6 as stated: two such calls return the same decision and the same name.
C6_SameDecisionAndName ==
  \A r1, r2 \in Requests :
    ResolvedAlike(r1, r2)
    => /\ local[r1].decision = local[r2].decision
       /\ local[r1].final_table_name = local[r2].final_table_name

\* C6 amended: two such calls return the same decision; the same name, the
\* base name, when the decision is created_new_table or
\* matched_existing_table; and on a mismatch two names that both start with
\* the base name and "__".
C6_SameDecision ==
  \A r1, r2 \in Requests :
    ResolvedAlike(r1, r2)
    => /\ local[r1].decision = local[r2].decision
       /\ local[r1].decision # "schema_mismatch_created_new_table"
            => /\ local[r1].final_table_name = local[r1].base_table_name
               /\ local[r2].final_table_name = local[r1].base_table_name
       /\ local[r1].decision = "schema_mismatch_created_new_table"
            => \A r \in { r1, r2 } :
                 StartsWith(local[r].final_table_name,
                            local[r].base_table_name \o << "_", "_" >>)

\* two such calls in the mismatch branch returned different names
C6_Witness ==
  \E r1, r2 \in Requests :
    /\ ResolvedAlike(r1, r2)
    /\ local[r1].decision = "schema_mismatch_created_new_table"
    /\ local[r1].final_table_name # local[r2].final_table_name

\* C7: a request whose ingestion is running holds no advisory lock.
C7_NoLockDuringIngestion ==
  \A r \in Requests : pc[r] = "loading" => HoldsNoLock(r)

\* one upload's ingestion runs while another upload holds the lock of the
\* same table
C7_Witness ==
  \E r1, r2 \in Requests :
    /\ r1 # r2
    /\ pc[r1] = "loading"
    /\ InCriticalSection(r2)
    /\ LockOf(r1) = LockOf(r2)

\* resolve has ended for the request: it returned or it raised
ResolveEnded(r) ==
  \/ Resolved(r)
  \/ store_error[r] \in { "lock", "has_table", "get_columns", "commit" }

\* C8: once resolve has returned a decision or has failed, the request holds
\* no advisory lock.
C8_LockReleasedOnEveryExit ==
  \A r \in Requests : ResolveEnded(r) => HoldsNoLock(r)

\* a catalog query of one request failed under the lock, and a later
\* request holds that lock
C8_Witness ==
  \E r1, r2 \in Requests :
    /\ r1 # r2
    /\ store_error[r1] \in { "has_table", "get_columns" }
    /\ LockOf(r1) = LockOf(r2)
    /\ advisory_lock[LockOf(r2)] = r2

\* the store operations of the resolution
ResolutionErrors ==
  { "engine", "connect", "lock", "has_table", "get_columns", "commit" }

\* C9: a request for which the connection, the lock acquisition or a catalog
\* query failed has no decision and no final table name, did not take the
\* failure for a missing table, runs no ingestion and ends with status 500.
C9_ResolutionFailureAborts ==
  \A r \in Requests :
    store_error[r] \in ResolutionErrors
    => /\ pc[r] = "failed"
       /\ local[r].status_code = 500
       /\ local[r].decision = "none"
       /\ local[r].final_table_name = << >>
       /\ local[r].write_disposition = "none"

\* the catalog query of a request failed while the table exists
C9_Witness ==
  \E r \in Requests :
    /\ store_error[r] = "has_table"
    /\ BaseTable(r) \in DOMAIN catalog
    /\ pc[r] = "failed"

\* the upload has no .csv filename, no bytes, or no field in its first record
InvalidUpload(up) ==
  \/ up.filename \in { None, << >> }
  \/ Len(up.filename) < 4
  \/ str_lower(SubSeq(up.filename, Len(up.filename) - 3, Len(up.filename))) # DotCsv
  \/ up.content.empty
  \/ up.content.records = << >>
  \/ up.content.records[1] = << >>

\* the invalid uploads among the uploads of the model
InvalidUploads == { u \in DOMAIN Uploads : InvalidUpload(Uploads[u]) }

\* C10: a received upload that is invalid is rejected with status 400, and
\* the request has taken no lock, made no catalog query and started no
\* ingestion.
C10_ValidationPrecedesStore ==
  \A r \in Requests :
    ( pc[r] # "idle" /\ local[r].upload \in InvalidUploads )
    => /\ pc[r] = "rejected"
       /\ local[r].status_code = 400
       /\ HoldsNoLock(r)
       /\ seen_version[r] = { }
       /\ store_error[r] = "none"
       /\ local[r].decision = "none"
       /\ local[r].write_disposition = "none"

\* an upload without a header row was rejected while another request was in
\* the critical section
C10_Witness ==
  \E r, r2 \in Requests :
    /\ pc[r] = "rejected"
    /\ local[r].upload \in InvalidUploads
    /\ local[r].detail = "CSV has no header row"
    /\ InCriticalSection(r2)

\* the catalog has not changed since the queries of the request's resolve
CatalogAsSeen(r) == seen_version[r] = { catalog_version }

\* C11: when the base table was not in the catalog at resolve's query,
\* resolve returns created_new_table and the base name, whatever the
\* incoming columns are.
C11_MissingTableIsCreated ==
  \A r \in Requests :
    Resolved(r)
    => /\ ~ local[r].exists
          => /\ local[r].decision = "created_new_table"
             /\ local[r].final_table_name = local[r].base_table_name
       /\ ( CatalogAsSeen(r) /\ BaseTable(r) \notin DOMAIN catalog )
          => /\ ~ local[r].exists
             /\ local[r].decision = "created_new_table"

\* resolve returned created_new_table for an upload of two columns while the
\* catalog held another table and not the base table
C11_Witness ==
  \E r \in Requests :
    /\ pc[r] = "resolved"
    /\ local[r].decision = "created_new_table"
    /\ Len(local[r].incoming_cols) = 2
    /\ BaseTable(r) \notin DOMAIN catalog
    /\ catalog # << >>

\* the two column lists have the same members
SameColumnSet(cols1, cols2) ==
  /\ \A i \in DOMAIN cols1 : \E j \in DOMAIN cols2 : cols1[i] = cols2[j]
  /\ \A j \in DOMAIN cols2 : \E i \in DOMAIN cols1 : cols1[i] = cols2[j]

\* C12: when the base table exists, resolve returns matched_existing_table
\* and the base name if the incoming headers and the table's columns have the
\* same members (in any order, with any repetition), and a mismatch decision
\* exactly when they have not.
C12_MatchIffSameColumnSet ==
  \A r \in Requests :
    ( Resolved(r) /\ local[r].exists )
    => /\ SameColumnSet(local[r].existing_cols, local[r].incoming_cols)
          => /\ local[r].decision = "matched_existing_table"
             /\ local[r].final_table_name = local[r].base_table_name
       /\ ~ SameColumnSet(local[r].existing_cols, local[r].incoming_cols)
          <=> local[r].decision = "schema_mismatch_created_new_table"

\* resolve matched an upload whose header list has the table's columns in
\* another order
C12_Witness ==
  \E r \in Requests :
    /\ local[r].decision = "matched_existing_table"
    /\ Len(local[r].incoming_cols) = 2
    /\ Len(local[r].existing_cols) = 2
    /\ local[r].incoming_cols # local[r].existing_cols

\* C13: normalize_header and slugify_table_name, applied to their own
\* result, return it unchanged.
C13_NormalizationIdempotent ==
  norm.pc = "twice" => norm.twice = norm.once

\* slugify_table_name was applied twice to a digit-led filename with
\* punctuation and an extension
C13_Witness ==
  /\ norm.pc = "twice"
  /\ norm.fn = "slugify_table_name"
  /\ Len(norm.input) = MaxLen + 4
  /\ norm.input[1] \in Digits
  /\ norm.input[2] = "#"
  /\ norm.twice = norm.once

\* a non-empty text of characters [a-z0-9_] that does not start with a digit
IsIdentifier(s) ==
  /\ s # << >>
  /\ \A i \in DOMAIN s : s[i] \in Alnum \cup { "_" }
  /\ s[1] \notin Digits

\* C14: the names load_csv hands to the resolver (normalize_header of a
\* header, a table override or a db parameter, slugify_table_name of a
\* filename) are identifiers.
C14_NamesAreIdentifiers ==
  norm.pc # "start" => IsIdentifier(norm.once)

\* the base table name of an upload whose table override is a digit
C14_Witness ==
  /\ norm.fn = "base_table_name"
  /\ norm.input[1] = << "1" >>
  /\ norm.once = << "c", "_", "1" >>

\* C15: a request that has started the resolution (it is in the
\* transaction, waiting for the lock or holding it) eventually has a
\* decision or has failed with an error.
C15_ResolutionTerminates ==
  \A r \in Requests :
    ( pc[r] = "in_txn" \/ InCriticalSection(r) )
      ~> ( Resolved(r) \/ pc[r] = "failed" )

\* a request waits for the lock that another request holds
C15_Witness ==
  \E r1, r2 \in Requests :
    /\ r1 # r2
    /\ pc[r1] = "in_txn"
    /\ advisory_lock[LockOf(r1)] = r2
    /\ InCriticalSection(r2)

\* the request takes a step of engine.begin() or choose_table_name_atomic
ResolveStep(r) ==
  /\ pc[r] \in { "validated", "in_txn", "locked", "get_columns", "inspected" }
  /\ pc'[r] # pc[r]

\* C16: no step of the resolution, in any decision branch or on failure,
\* changes the catalog; the catalog changes only when an ingestion
\* completes, and no step removes a table from it.
C16_ResolveLeavesCatalog ==
  [][ /\ \A r \in Requests : ResolveStep(r) => catalog' = catalog
      /\ DOMAIN catalog \subseteq DOMAIN catalog'
      /\ catalog' # catalog
           => \E r \in Requests : pc[r] = "loading" /\ pc'[r] = "done" ]_vars

\* a request has resolved to a fork of an existing table, and the catalog
\* holds the base table as the request read it and not the fork
C16_Witness ==
  \E r \in Requests :
    /\ pc[r] = "resolved"
    /\ local[r].decision = "schema_mismatch_created_new_table"
    /\ BaseTable(r) \in DOMAIN catalog
    /\ catalog[BaseTable(r)] = local[r].existing_cols
    /\ << local[r].schema_name, local[r].final_table_name >> \notin DOMAIN catalog

\* the request's ingestion completes in this step
IngestionCompletes(r) == pc[r] = "loading" /\ pc'[r] = "done"

\* One decision per upload, unchanged once made; one ingestion call, made
\* after the resolution has returned, with the requested write mode, which
\* writes the table the resolution named and no other.
IngestsOnceWhatWasResolved(r) ==
  /\ Resolved(r)
       => /\ local'[r].decision = local[r].decision
          /\ local'[r].final_table_name = local[r].final_table_name
  /\ ( pc'[r] = "loading" /\ pc[r] # "loading" )
       => /\ pc[r] = "resolved"
          /\ Resolved(r)
          /\ local'[r].write_disposition = Uploads[local[r].upload].mode
  /\ pc[r] = "loading" => pc'[r] \in { "loading", "done", "failed" }
  /\ pc[r] \in { "done", "failed", "rejected" } => pc'[r] = pc[r]
  /\ IngestionCompletes(r)
       => /\ << local[r].schema_name, local[r].final_table_name >>
               \in DOMAIN catalog'
          /\ \A t \in DOMAIN catalog' :
               t # << local[r].schema_name, local[r].final_table_name >>
                 => t \in DOMAIN catalog /\ catalog'[t] = catalog[t]

\* an upload whose columns differ from those of the existing base table
\* does not write to the base table
MismatchNeverWritesBase(r) ==
  ( /\ IngestionCompletes(r)
    /\ BaseTable(r) \in DOMAIN catalog
    /\ ~ columns_match(catalog[BaseTable(r)], local[r].incoming_cols) )
    => catalog'[BaseTable(r)] = catalog[BaseTable(r)]

\* the part of C17 that is about the order of the calls and their arguments
C17_IngestionFollowsResolution ==
  [][ \A r \in Requests : IngestsOnceWhatWasResolved(r) ]_vars

\* C17: each upload has at most one decision and one ingestion call, the
\* ingestion follows the resolution and writes the table it named with the
\* requested write mode, and an upload whose columns differ from the
\* existing base table never writes to the base table.
C17_UploadIngestsItsResolution ==
  [][ \A r \in Requests :
        /\ IngestsOnceWhatWasResolved(r)
        /\ MismatchNeverWritesBase(r) ]_vars

\* r2 inspected the catalog as r1's completed ingestion left it: r1 is the
\* only upload that has been ingested when r2 decides
ReuploadAfter(r1, r2) ==
  /\ r1 # r2
  /\ pc[r1] = "done"
  /\ local[r1].decision = "created_new_table"
  /\ Resolved(r2)
  /\ pc[r2] \in { "resolved", "loading" }
  /\ seen_version[r2] = { catalog_version }
  /\ SameResolveArguments(r1, r2)

\* C18: after an upload has completed with created_new_table for a base
\* name, a later upload of the same namespace, base name and column set,
\* with no other upload in between, is resolved as matched_existing_table
\* with the base name.
C18_ReuploadMatches ==
  \A r1, r2 \in Requests :
    ReuploadAfter(r1, r2)
      => /\ local[r2].decision = "matched_existing_table"
         /\ local[r2].final_table_name = local[r2].base_table_name

\* C19: the callback reaches the token exchange only with a state
\* parameter that is present and equals a state value a preceding /start
\* stored; a callback without a state parameter, or before any /start, is
\* rejected.
C19_ExchangeOnlyWithIssuedState ==
  \A state \in oauth.exchanged :
    /\ state.present
    /\ state.value \in oauth.issued

====
